---- MODULE Spec2Model ----
(***************************************************************************)
(* The council lifecycle of yashdjoshi/saturday_ai.                        *)
(*                                                                         *)
(* Two classes of the repository keep a store of councils:                 *)
(*   CouncilPlugin   src/src/plugins/council.ts  (stages, activeCouncil)   *)
(*   CouncilManager  src/unnamed/part_000        (module-level manager)    *)
(* The variable impl says which of the two a behaviour runs; every other   *)
(* variable is that class's state.  Math.random() is the only input of the *)
(* code besides the call arguments: a draw d >= 0 stands for the value     *)
(* d / RandScale of Math.random(), a draw -k for 1 - k * 2^-53, the k-th   *)
(* double below 1.                                                         *)
(***************************************************************************)
EXTENDS Integers, Sequences, FiniteSets, TLC

VARIABLES
  impl,           \* "plugin" | "manager": the class under execution
  heap,           \* the Council objects, in allocation order (index = reference)
  councils,       \* the Map<string, Council>: entries <<id, ref>> in insertion order
  activeCouncil,  \* CouncilPlugin.activeCouncil: a reference, 0 for null
  calls,          \* async calls suspended at an await
  last,           \* the operation that returned last, and what it returned
  ghost           \* per council: history counters the claims speak about

vars == <<impl, heap, councils, activeCouncil, calls, last, ghost>>

----------------------------------------------------------------------------
(* Bounds of the model. *)

MaxCouncils == 2      \* councils created in one behaviour
MaxInFlight == 2      \* async calls suspended at the same time
MaxStore == 3         \* councils created through the CouncilManager chat handler alone
RandBits == 7         \* Math.random() takes the values d / 2^RandBits, d in 0..2^RandBits - 1,
MaxBelowOne == 2      \* and the MaxBelowOne greatest doubles below 1

----------------------------------------------------------------------------
(* Program constants. *)

NumStages == 5

\* .slice(0, 3): the members of a council
NumMembers == 3

Roster ==
  << "CryptoSage", "TokenWhisperer", "BlockchainOracle", "DeFiGuru", "ChartMaster" >>

RosterNames == { Roster[i] : i \in 1..Len(Roster) }

StageNames ==
  << "On-chain Analysis", "Social Sentiment", "Market Insights",
     "Design and Art", "Value Proposition" >>

\* floor(lo + Math.random() * width) of each declared stage
StageLo(name) ==
  CASE name = "On-chain Analysis" -> 60
    [] name = "Social Sentiment"  -> 50
    [] name = "Market Insights"   -> 40
    [] name = "Design and Art"    -> 70
    [] name = "Value Proposition" -> 55

StageWidth(name) ==
  CASE name = "On-chain Analysis" -> 40
    [] name = "Social Sentiment"  -> 50
    [] name = "Market Insights"   -> 60
    [] name = "Design and Art"    -> 30
    [] name = "Value Proposition" -> 45

\* the keys of the details object each declared stage returns
StageDetails(name) ==
  CASE name = "On-chain Analysis" -> {"github", "transactions"}
    [] name = "Social Sentiment"  -> {"twitter", "telegram"}
    [] name = "Market Insights"   -> {"firstMover", "competitors", "team"}
    [] name = "Design and Art"    -> {"website", "artStyle"}
    [] name = "Value Proposition" -> {"innovation", "useCase"}

----------------------------------------------------------------------------
(* Draws of Math.random(). *)

\* d / RandScale is a double, and so is its product with a small integer
RandScale == 2 ^ RandBits

\* the draws d / RandScale
Grid == 0..(RandScale - 1)

\* the draws 1 - k * 2^-53: the greatest values Math.random() returns
\* (1 - 2^-53 with 53 random bits, 1 - 2^-52 with 52)
TopDraws == { 0 - k : k \in 1..MaxBelowOne }

Rand == Grid \cup TopDraws

\* the exponent of the doubles just below n: 2^BinadeBelow(n) < n <= 2 * 2^BinadeBelow(n)
RECURSIVE BinadeFrom(_, _)
BinadeFrom(n, e) == IF 2 ^ (e + 1) < n THEN BinadeFrom(n, e + 1) ELSE e

BinadeBelow(n) == BinadeFrom(n, 0)

\* a / b rounded to the nearest integer, a tie to the even one (the rounding
\* of every double operation)
RoundHalfEven(a, b) ==
  LET q == a \div b
      r == a % b
  IN  IF 2 * r < b THEN q
      ELSE IF 2 * r > b THEN q + 1
      ELSE IF q % 2 = 0 THEN q ELSE q + 1

\* Math.random() * n for the draw 1 - k * 2^-53, as the number of doubles the
\* product lies below n (0: the product rounds to n itself)
UlpsBelowProduct(k, n) == RoundHalfEven(k * n, 2 ^ (BinadeBelow(n) + 1))

\* Math.floor(Math.random() * n)
FloorRand(d, n) ==
  IF d >= 0 THEN (d * n) \div RandScale
  ELSE IF UlpsBelowProduct(0 - d, n) = 0 THEN n ELSE n - 1

\* Math.floor(lo + Math.random() * w): on the grid the product and the sum
\* are exact; for a draw 1 - k * 2^-53 the product is rounded, then the sum
FloorAddRand(lo, d, w) ==
  IF d >= 0 THEN lo + (d * w) \div RandScale
  ELSE LET j == UlpsBelowProduct(0 - d, w)
           m == RoundHalfEven(j * 2 ^ BinadeBelow(w), 2 ^ BinadeBelow(lo + w))
       IN  IF m = 0 THEN lo + w ELSE lo + w - 1

\* The least and the greatest draw.
EdgeDraws == {0, RandScale - 1}

\* One draw per tenth of [0,1): Math.floor(Math.random() * 10) + 1 takes
\* every value of 1..10 on them.
Deciles == { (k * RandScale + 9) \div 10 : k \in 0..9 }

\* The draws of a council's three members in the lifecycle specification:
\* in collectRatings they give the means 4, 7 and 10.
MemberDraws ==
  { <<0, 0, RandScale - 1>>, <<0, RandScale - 1, RandScale - 1>>,
    <<RandScale - 1, RandScale - 1, RandScale - 1>> }

\* The member draws of getMemberAnalyses (ratings 60, 99, 99) and of the chat
\* handler's "confirm" branch (ratings 6, 6, 9).
AnalysisDraws == { <<0, RandScale - 1, RandScale - 1>> }

ConfirmDraws == { <<0, 0, RandScale - 1>> }

\* The draws of technicalScore, fundamentalScore and memePotential: no other
\* field depends on them.
AxisDraws == { <<0, RandScale \div 2, RandScale - 1>> }

\* Math.random().toString(36).substring(7): a short base-36 string.  Its
\* value is not computed from the draw, it is taken from a pool; a call
\* returns an id already in the store (a collision) or the next of the pool.
IdPool == << "k3f", "x9q", "p0d", "m7z" >>

IdDraws(m) ==
  { m[i][1] : i \in 1..Len(m) } \cup
  { IdPool[IF Len(m) < Len(IdPool) THEN Len(m) + 1 ELSE Len(IdPool)] }

\* an id no council was stored under
MissingId == "none"

\* the ids a caller passes
IdArgs(m) == { m[i][1] : i \in 1..Len(m) } \cup {MissingId}

Cryptos == {"BTC"}

\* [...councilMembers].sort(() => 0.5 - Math.random()): the comparator is
\* inconsistent, the result is some permutation of the roster.
AllShuffles ==
  { p \in [1..Len(Roster) -> 1..Len(Roster)] :
      \A i, j \in 1..Len(Roster) : i # j => p[i] # p[j] }

\* The permutation the lifecycle specification draws: the roster reversed.
EdgeShuffles == { [i \in 1..Len(Roster) |-> Len(Roster) + 1 - i] }

----------------------------------------------------------------------------
(* Values. *)

\* a string the code leaves '' / a narrative template with the symbol put in
NoText == [template |-> "", crypto |-> ""]

Narrative(sentiment, crypto) == [template |-> sentiment, crypto |-> crypto]

\* ratings: {} (a Record with no key)
EmptyRatings == [n \in {} |-> 0]

\* record[key] = value
Put(f, k, v) == [x \in (DOMAIN f) \cup {k} |-> IF x = k THEN v ELSE f[x]]

\* the functions an object literal inherits from Object.prototype
InheritedFunctions ==
  { "toString", "toLocaleString", "valueOf", "hasOwnProperty", "isPrototypeOf",
    "propertyIsEnumerable", "__defineGetter__", "__defineSetter__",
    "__lookupGetter__", "__lookupSetter__" }

\* generateMemberComment: comments[member.name] || 'Looking bullish!'.  The
\* table is an object literal: a name it inherits gives the inherited value,
\* which is truthy, and no other name is found.
generateMemberComment(name) ==
  CASE name = "CryptoSage"       -> "Charts looking absolutely based!"
    [] name = "TokenWhisperer"   -> "Tokenomics check out, ser"
    [] name = "BlockchainOracle" -> "On-chain metrics bullish af"
    [] name = "DeFiGuru"         -> "Smart contracts looking clean"
    [] name = "ChartMaster"      -> "Market structure is valid"
    [] name = "constructor"      -> "function Object"
    [] name = "__proto__"        -> "Object.prototype"
    [] name \in InheritedFunctions -> "function " \o name
    [] OTHER                     -> "Looking bullish!"

\* a rating that carries the member's comment as its memberName
RatingMisnamed(im, name, score) ==
  IF im = "plugin"
    THEN [memberName |-> generateMemberComment(name), score |-> score,
          comment |-> generateMemberComment(name)]
    ELSE score

\* A stored rating: a CouncilRating object in CouncilPlugin, a bare number in
\* CouncilManager (ratings: Record<string, number>).
Rating(im, name, score) ==
  IF im = "plugin"
    THEN [memberName |-> name, score |-> score, comment |-> generateMemberComment(name)]
    ELSE score

ScoreOf(im, r) == IF im = "plugin" THEN r.score ELSE r

\* Object.values(council.ratings).reduce((a, b) => a + b.score, 0)
RECURSIVE SumScores(_, _, _)
SumScores(im, ratings, keys) ==
  IF keys = {} THEN 0
  ELSE LET k == CHOOSE x \in keys : TRUE
       IN  ScoreOf(im, ratings[k]) + SumScores(im, ratings, keys \ {k})

RatingSum(im, ratings) == SumScores(im, ratings, DOMAIN ratings)

\* the stage objects suggestCouncil builds
InitStage(name) ==
  [name |-> name, completed |-> FALSE, score |-> 0, analysis |-> "", details |-> {}]

\* a slice that stops one member short
DrawMembersTwo(perm) == SubSeq([i \in 1..Len(Roster) |-> Roster[perm[i]]], 1, 2)

\* .slice(0, 3) of the shuffled roster, as names
DrawMembers(perm) == SubSeq([i \in 1..Len(Roster) |-> Roster[perm[i]]], 1, NumMembers)

\* the Council object suggestCouncil builds
NewCouncil(im, id, members, crypto) ==
  [ id |-> id,
    members |-> members,
    status |-> "pending",
    ratings |-> EmptyRatings,
    crypto |-> crypto,
    analysis |-> NoText,
    currentStage |-> 0,
    stages |-> IF im = "plugin"
                 THEN [i \in 1..NumStages |-> InitStage(StageNames[i])]
                 ELSE << >>,
    riskLevel |-> "medium",
    technicalScore |-> 0,
    fundamentalScore |-> 0,
    memePotential |-> 0 ]

----------------------------------------------------------------------------
(* The Map<string, Council>. *)

MapKeys(m) == { m[i][1] : i \in 1..Len(m) }

\* councils.get(id): the reference stored under id, 0 for undefined
MapGet(m, id) ==
  IF id \in MapKeys(m)
    THEN LET i == CHOOSE j \in 1..Len(m) : m[j][1] = id IN m[i][2]
    ELSE 0

\* councils.set(id, ref): a present key keeps its place and takes the new value
MapSet(m, id, ref) ==
  IF id \in MapKeys(m)
    THEN [i \in 1..Len(m) |-> IF m[i][1] = id THEN <<id, ref>> ELSE m[i]]
    ELSE Append(m, <<id, ref>>)

\* Array.from(councils.values())
MapValues(m) == [i \in 1..Len(m) |-> m[i][2]]

----------------------------------------------------------------------------
(* collectRatings, on one Council object. *)

\* Math.floor(Math.random() * 10) + 1
QuickScore(d) == FloorRand(d, 10) + 1

\* council.members.forEach(member => council.ratings[member.name] = ...)
RECURSIVE PutRatings(_, _, _, _, _)
PutRatings(im, ratings, members, scores, i) ==
  IF i > Len(members) THEN ratings
  ELSE PutRatings(im, Put(ratings, members[i], Rating(im, members[i], scores[i])),
                  members, scores, i + 1)

\* the risk bands with the comparisons of the sentiment bands
RiskLevelGe(sum, n) ==
  IF sum >= 7 * n THEN "low" ELSE IF sum >= 4 * n THEN "medium" ELSE "high"

\* avgRating > 7 ? 'low' : avgRating > 4 ? 'medium' : 'high', avgRating = sum / n
RiskLevelOf(sum, n) ==
  IF sum > 7 * n THEN "low" ELSE IF sum > 4 * n THEN "medium" ELSE "high"

\* avgRating >= 7 ? 'bullish' : avgRating >= 4 ? 'neutral' : 'bearish'
SentimentOf(sum, n) ==
  IF sum >= 7 * n THEN "bullish" ELSE IF sum >= 4 * n THEN "neutral" ELSE "bearish"

\* avgRating.toFixed(1), in tenths
ToFixed1(sum, n) == (20 * sum + n) \div (2 * n)

\* The council after collectRatings passed its guard; rs are the three member
\* draws, ax the draws of technicalScore, fundamentalScore and memePotential.
CollectInto(im, c, rs, ax) ==
  LET ratings == PutRatings(im, c.ratings, c.members,
                            [i \in 1..Len(c.members) |-> QuickScore(rs[i])], 1)
      sum == RatingSum(im, ratings)
      n == Len(c.members)
  IN  [c EXCEPT !.ratings = ratings,
                !.technicalScore = FloorRand(ax[1], 100),
                !.fundamentalScore = FloorRand(ax[2], 100),
                !.memePotential = FloorRand(ax[3], 100),
                !.riskLevel = RiskLevelOf(sum, n),
                !.analysis = Narrative(SentimentOf(sum, n), c.crypto),
                !.status = "complete"]

\* The string collectRatings returns, by its parts.  CouncilPlugin builds the
\* per-member lines and drops them; CouncilManager returns them as tweet 3.
CollectReport(im, c) ==
  LET sum == RatingSum(im, c.ratings)
      n == Len(c.members)
  IN  [ kind |-> "report",
        crypto |-> c.crypto,
        overall |-> ToFixed1(sum, n),
        scores |-> <<c.technicalScore, c.fundamentalScore, c.memePotential>>,
        risk |-> c.riskLevel,
        analysis |-> c.analysis,
        votes |-> IF im = "plugin" THEN << >>
                  ELSE [i \in 1..n |-> <<c.members[i], c.ratings[c.members[i]]>>] ]

----------------------------------------------------------------------------
(* History the claims speak about, kept beside each Council object. *)

\* confirmedTrue: calls of confirmCouncil that returned true for the council
\* collected:     calls of collectRatings that passed the guard for it
\* completions:   times its status became 'complete'
\* nexts:         calls of progressStage that passed the guard and returned
\* overlapped:    a progressStage call on it began while another was suspended
\* The counters stop at GhostCap.
GhostCap == 7

Bump(n) == IF n < GhostCap THEN n + 1 ELSE n

\* the counters a claim compares with 1 stop at OnceCap
OnceCap == 2

BumpOnce(n) == IF n < OnceCap THEN n + 1 ELSE n

NewGhost ==
  [confirmedTrue |-> 0, collected |-> 0, completions |-> 0, nexts |-> 0,
   overlapped |-> FALSE]

Refs == 1..Len(heap)

\* the calls suspended on council r
InFlightOn(r) == { k \in 1..Len(calls) : calls[k].ref = r }

RemoveAt(s, k) == [i \in 1..(Len(s) - 1) |-> IF i < k THEN s[i] ELSE s[i + 1]]

\* what the operation that just returned leaves in last
Returned(op, arg, ret) == [op |-> op, arg |-> arg, ret |-> ret]

----------------------------------------------------------------------------
(* suggestCouncil, confirmCouncil, collectRatings: both classes. *)

Init ==
  /\ impl \in {"plugin", "manager"}
  /\ heap = << >>
  /\ councils = << >>
  /\ activeCouncil = 0
  /\ calls = << >>
  /\ last = Returned("constructor", "", [kind |-> "void"])
  /\ ghost = << >>

\* suggestCouncil(crypto) with the id and the shuffle it drew
SuggestCouncilWith(id, perm, crypto) ==
  /\ Len(heap) < MaxCouncils
  /\ heap' = Append(heap, NewCouncil(impl, id, DrawMembers(perm), crypto))
  /\ councils' = MapSet(councils, id, Len(heap) + 1)
  /\ ghost' = Append(ghost, NewGhost)
  /\ last' = Returned("suggestCouncil", crypto, [kind |-> "council", ref |-> Len(heap) + 1])
  /\ UNCHANGED <<impl, activeCouncil, calls>>

SuggestCouncil ==
  \E id \in IdDraws(councils), perm \in EdgeShuffles, crypto \in Cryptos :
    SuggestCouncilWith(id, perm, crypto)

\* a guard that looks for the council and not at its status
ConfirmGuardAnyStatus(r) == r # 0

\* confirmCouncil's guard: council && council.status === 'pending'
ConfirmGuard(r) == r # 0 /\ heap[r].status = "pending"

ConfirmCouncilId(id) ==
  LET r == MapGet(councils, id) IN
  /\ IF ConfirmGuard(r)
       THEN /\ heap' = [heap EXCEPT ![r].status = "active"]
            /\ ghost' = [ghost EXCEPT ![r].confirmedTrue = BumpOnce(@)]
       ELSE UNCHANGED <<heap, ghost>>
  /\ last' = Returned("confirmCouncil", id, [kind |-> "boolean", value |-> ConfirmGuard(r)])
  /\ UNCHANGED <<impl, councils, activeCouncil, calls>>

ConfirmCouncil == \E id \in IdArgs(councils) : ConfirmCouncilId(id)

\* collectRatings' guard: !(!council || council.status !== 'active')
CollectGuard(r) == r # 0 /\ heap[r].status = "active"

CollectRatingsWith(id, rs, ax) ==
  LET r == MapGet(councils, id) IN
  /\ IF CollectGuard(r)
       THEN LET c == CollectInto(impl, heap[r], rs, ax) IN
            /\ heap' = [heap EXCEPT ![r] = c]
            /\ ghost' = [ghost EXCEPT ![r].collected = BumpOnce(@),
                                      ![r].completions = BumpOnce(@)]
            /\ last' = Returned("collectRatings", id, CollectReport(impl, c))
       ELSE /\ UNCHANGED <<heap, ghost>>
            /\ last' = Returned("collectRatings", id, [kind |-> "Council not found or not active"])
  /\ UNCHANGED <<impl, councils, activeCouncil, calls>>

CollectRatings ==
  \E id \in IdArgs(councils), rs \in MemberDraws, ax \in AxisDraws :
    CollectRatingsWith(id, rs, ax)

----------------------------------------------------------------------------
(* analyzeStage, generateSentiment, generateFinalAnalysis: CouncilPlugin. *)

DeclaredStages == { StageNames[i] : i \in 1..Len(StageNames) }

\* the analysis string of each declared stage, by its first words
StageText(name) ==
  CASE name = "On-chain Analysis" -> "On-chain metrics looking bullish af!"
    [] name = "Social Sentiment"  -> "Social metrics bussin fr fr!"
    [] name = "Market Insights"   -> "Market position: absolute chad energy!"
    [] name = "Design and Art"    -> "Design aesthetic: chef's kiss!"
    [] name = "Value Proposition" -> "Utility check: solving real problems!"

\* a stage name that is no key of analyses and none of Object.prototype
UnknownStage == "Tokenomics"

\* analyses is an object literal: analyses[stage.name] also finds what it
\* inherits from Object.prototype.  Of these names,
\*   hasOwnProperty is a function that returns false when called with no
\*     argument (so do isPrototypeOf and propertyIsEnumerable),
\*   __proto__ is Object.prototype itself: not null, not undefined and not a
\*     function, so the call after ?. throws a TypeError.
\* constructor, toString, toLocaleString and valueOf return a truthy value
\* that has none of the three fields; they are not among the names drawn.
InheritedFalsy == {"hasOwnProperty"}

InheritedThrowing == {"__proto__"}

\* the stage names analyzeStage is called with
StageArgs == DeclaredStages \cup {UnknownStage} \cup InheritedFalsy \cup InheritedThrowing

\* analyses[stage.name]?.() throws: analyzeStage's promise is rejected
analyzeStageThrows(name) == name \in InheritedThrowing

\* analyses[stage.name]?.() || { 'Analysis unavailable', 0, {} }, d the draw
analyzeStage(name, d) ==
  CASE name \in DeclaredStages ->
         [ analysis |-> StageText(name),
           score |-> FloorAddRand(StageLo(name), d, StageWidth(name)),
           details |-> StageDetails(name) ]
    [] name \in {UnknownStage} \cup InheritedFalsy ->
         [ analysis |-> "Analysis unavailable", score |-> 0, details |-> {} ]

\* generateSentiment(score), score = num / den
generateSentiment(num, den) ==
  IF num > 75 * den THEN "WAGMI"
  ELSE IF num > 50 * den THEN "Not bad anon"
  ELSE "Major red flags"

RECURSIVE SumStageScores(_, _)
SumStageScores(stages, i) ==
  IF i > Len(stages) THEN 0 ELSE stages[i].score + SumStageScores(stages, i + 1)

\* the string generateFinalAnalysis returns, by its parts
\* (council.ratings[member.name]?.score || 0 for each member)
FinalSummary(c) ==
  LET sum == SumStageScores(c.stages, 1)
      n == Len(c.stages)
  IN  [ kind |-> "final",
        crypto |-> c.crypto,
        memberRatings |-> [i \in 1..Len(c.members) |->
                             IF c.members[i] \in DOMAIN c.ratings
                               THEN c.ratings[c.members[i]].score ELSE 0],
        overall |-> ToFixed1(sum, n),
        sentiment |-> generateSentiment(sum, n) ]

\* a final analysis that also rewinds the stage pointer
generateFinalAnalysisRewinding(c) == [c EXCEPT !.status = "complete", !.currentStage = 0]

\* generateFinalAnalysis writes the status and nothing else: its riskLevel is
\* a local that is not stored
generateFinalAnalysis(c) == [c EXCEPT !.status = "complete"]

----------------------------------------------------------------------------
(* progressStage: CouncilPlugin. *)

ProgressGuard(r) == r # 0 /\ heap[r].status = "active"

\* council.stages[council.currentStage] is undefined
PastLastStage(c) == c.currentStage >= Len(c.stages)

\* the writes of a stage without its completed flag
StageDoneNoFlag(c, k, a) ==
  [c EXCEPT !.stages[k].analysis = a.analysis,
            !.stages[k].score = a.score,
            !.stages[k].details = a.details,
            !.currentStage = @ + 1]

\* the writes of a stage without the move of the stage pointer
StageDoneNoAdvance(c, k, a) ==
  [c EXCEPT !.stages[k].completed = TRUE,
            !.stages[k].analysis = a.analysis,
            !.stages[k].score = a.score,
            !.stages[k].details = a.details]

\* the writes after `await this.analyzeStage(...)`, on the stage object k that
\* was read before it, a the analysis
StageDone(c, k, a) ==
  [c EXCEPT !.stages[k].completed = TRUE,
            !.stages[k].analysis = a.analysis,
            !.stages[k].score = a.score,
            !.stages[k].details = a.details,
            !.currentStage = @ + 1]

\* the stage message progressStage returns, by its parts
StageMessage(c, k, a) ==
  [ kind |-> "stage", number |-> c.currentStage, name |-> c.stages[k].name,
    analysis |-> a.analysis, score |-> a.score ]

\* !council || council.status !== 'active': returns at once
ProgressStageRejected(id) ==
  /\ impl = "plugin"
  /\ ~ProgressGuard(MapGet(councils, id))
  /\ last' = Returned("progressStage", id, [kind |-> "No active council found"])
  /\ UNCHANGED <<impl, heap, councils, activeCouncil, calls, ghost>>

\* !currentStage: status = 'complete', returns generateFinalAnalysis(council)
ProgressStageFinal(id) ==
  LET r == MapGet(councils, id) IN
  /\ impl = "plugin"
  /\ ProgressGuard(r)
  /\ PastLastStage(heap[r])
  /\ heap' = [heap EXCEPT ![r] = generateFinalAnalysis([heap[r] EXCEPT !.status = "complete"])]
  /\ ghost' = [ghost EXCEPT ![r].completions = BumpOnce(@),
                            ![r].nexts = Bump(@)]
  /\ last' = Returned("progressStage", id, FinalSummary(heap[r]))
  /\ UNCHANGED <<impl, councils, activeCouncil, calls>>

\* the draws of analyzeStage in progressStage
StageDraws == {RandScale - 1}

\* The microtask turns from the call of analyzeStage to the resumption of its
\* caller: a declared stage returns the promise of its async function, which
\* the promise of analyzeStage adopts; the fallback object and a throw settle
\* it at once.
AwaitTurns(name) == IF name \in DeclaredStages THEN 3 ELSE 1

\* up to `await this.analyzeStage(...)`: the stage object is read and
\* analyzeStage runs, d its draw; cap bounds the calls in flight
ProgressStageAwait(id, d, cap) ==
  LET r == MapGet(councils, id) IN
  /\ impl = "plugin"
  /\ ProgressGuard(r)
  /\ ~PastLastStage(heap[r])
  /\ Len(calls) < cap
  /\ LET k == heap[r].currentStage + 1
         name == heap[r].stages[k].name
     IN  calls' = Append(calls,
           [ op |-> "progressStage", id |-> id, ref |-> r, stage |-> k,
             name |-> name, turns |-> AwaitTurns(name),
             throws |-> analyzeStageThrows(name),
             analysis |-> IF analyzeStageThrows(name) THEN analyzeStage(UnknownStage, d)
                          ELSE analyzeStage(name, d) ])
  /\ ghost' = [ghost EXCEPT ![r].overlapped = @ \/ InFlightOn(r) # {}]
  /\ UNCHANGED <<impl, heap, councils, activeCouncil, last>>

\* a call made earlier that waits no longer than call k resumes before it
ResumesFirst(k) ==
  \A j \in 1..(k - 1) :
    calls[j].op = "progressStage" => calls[j].turns > calls[k].turns

\* from the await to the return: the writes on the stage object read before
\* the await, with no look at the status; a throw of analyzeStage rejects the
\* call before any write
ProgressStageResume(k) ==
  LET call == calls[k]
      c == StageDone(heap[call.ref], call.stage, call.analysis)
  IN
  /\ call.op = "progressStage"
  /\ ResumesFirst(k)
  /\ calls' = RemoveAt(calls, k)
  /\ IF call.throws
       THEN /\ last' = Returned("progressStage", call.id, [kind |-> "TypeError"])
            /\ UNCHANGED <<heap, ghost>>
       ELSE /\ heap' = [heap EXCEPT ![call.ref] = c]
            /\ ghost' = [ghost EXCEPT ![call.ref].nexts = Bump(@)]
            /\ last' = Returned("progressStage", call.id,
                                StageMessage(c, call.stage, call.analysis))
  /\ UNCHANGED <<impl, councils, activeCouncil>>

\* progressStage, ds the draws of analyzeStage, cap the calls in flight
ProgressStageOver(ds, cap) ==
  \/ \E id \in IdArgs(councils) : ProgressStageRejected(id)
  \/ \E id \in IdArgs(councils) : ProgressStageFinal(id)
  \/ \E id \in IdArgs(councils), d \in ds : ProgressStageAwait(id, d, cap)
  \/ \E k \in 1..Len(calls) : ProgressStageResume(k)

ProgressStage == ProgressStageOver(StageDraws, MaxInFlight)

----------------------------------------------------------------------------
(* The chat handler's reading of a message. *)

\* the messages sent to the handler (message.content.text, lower-cased)
Texts == {"rate btc", "confirm", "gm"}

\* text.includes("rate") || text.includes("what do you think about")
AsksRating(text) == text = "rate btc"

\* text.includes("confirm"), and for these texts text === "confirm"
AsksConfirm(text) == text = "confirm"

\* CouncilPlugin: /(?:rate|about)\s+(\w+)(?:[^a-zA-Z]|$)/i captures the word
\* after "rate"; it must be one of supportedCryptos; upper-cased.  "" for none.
PluginCrypto(text) == IF text = "rate btc" THEN "BTC" ELSE ""

\* CouncilManager: /\b(btc|eth|sol|doge|shib|[a-z]{3,})\b/i matches the first
\* word of three letters or more, which in "rate btc" is "rate"; upper-cased.
ManagerCrypto(text) == IF text = "rate btc" THEN "RATE" ELSE ""

----------------------------------------------------------------------------
(* startAnalysis, getMemberAnalyses and the chat handler: CouncilPlugin. *)

\* a store that also marks every stage completed
StoreAnalysesCompleting(c, as) ==
  [c EXCEPT !.stages = [i \in 1..Len(c.stages) |->
                          [c.stages[i] EXCEPT !.completed = TRUE,
                                              !.analysis = as[i].analysis,
                                              !.score = as[i].score,
                                              !.details = as[i].details]]]

\* analyses.forEach((analysis, index) => council.stages[index] ...): the
\* completed flags and currentStage are not written
StoreAnalyses(c, as) ==
  [c EXCEPT !.stages = [i \in 1..Len(c.stages) |->
                          [c.stages[i] EXCEPT !.analysis = as[i].analysis,
                                              !.score = as[i].score,
                                              !.details = as[i].details]]]

\* Math.floor(Math.random() * 40) + 60
AnalysisScore(d) == FloorRand(d, 40) + 60

\* getMemberAnalyses, one turn of its loop: the rating of member i, d its draw
MemberRated(c, i, d) ==
  [c EXCEPT !.ratings = Put(c.ratings, c.members[i],
                            Rating("plugin", c.members[i], AnalysisScore(d)))]

\* the draws of the five analyzeStage calls of startAnalysis
BatchDraws == { [i \in 1..NumStages |-> 0] }

\* the five draws all least, or all greatest
BatchEdges == { [i \in 1..NumStages |-> d] : d \in EdgeDraws }

\* The handler's "rate" branch suspends at `await this.getTokenTradeData`,
\* at `await Promise.all` in startAnalysis and at each
\* `await this.generateMemberAnalysis` in getMemberAnalyses; a call in flight
\* is at one of these, or past the loop with its two callbacks to send.
PcRank(call) ==
  CASE call.pc = "token" -> 0
    [] call.pc = "analyses" -> 1
    [] call.pc = "member" -> 1 + call.i
    [] call.pc = "done" -> 2 + NumMembers

\* handler calls run the same turns: one made earlier stays ahead
HandlerTurn(k) ==
  /\ calls[k].op = "handler"
  /\ \A j \in 1..(k - 1) :
       calls[j].op = "handler" => PcRank(calls[j]) > PcRank(calls[k])

\* the councils that calls suspended at getTokenTradeData will create
ToCreate == Cardinality({ k \in 1..Len(calls) : calls[k].op = "handler" /\ calls[k].pc = "token" })

\* handler, "rate" branch up to `await this.getTokenTradeData(crypto)`
PluginRateBegin(text) ==
  /\ impl = "plugin"
  /\ AsksRating(text)
  /\ PluginCrypto(text) # ""
  /\ Len(heap) + ToCreate < MaxCouncils
  /\ Len(calls) < MaxInFlight
  /\ calls' = Append(calls, [ op |-> "handler", text |-> text, pc |-> "token",
                              ref |-> 0, i |-> 0, analyses |-> << >> ])
  /\ UNCHANGED <<impl, heap, councils, activeCouncil, last, ghost>>

\* suggestCouncil, activeCouncil = council, and startAnalysis up to
\* `await Promise.all(...)`: the five analyzeStage calls have run, ds their
\* draws
PluginRateCreate(k, id, perm, ds) ==
  /\ HandlerTurn(k)
  /\ calls[k].pc = "token"
  /\ LET c == NewCouncil("plugin", id, DrawMembers(perm), PluginCrypto(calls[k].text)) IN
       /\ heap' = Append(heap, c)
       /\ calls' = [calls EXCEPT ![k].pc = "analyses",
                                 ![k].ref = Len(heap) + 1,
                                 ![k].analyses = [i \in 1..Len(c.stages) |->
                                                    analyzeStage(c.stages[i].name, ds[i])]]
  /\ councils' = MapSet(councils, id, Len(heap) + 1)
  /\ activeCouncil' = Len(heap) + 1
  /\ ghost' = Append(ghost, NewGhost)
  /\ UNCHANGED <<impl, last>>

\* analyses.forEach(...), and getMemberAnalyses up to its first await
PluginRateStore(k) ==
  /\ HandlerTurn(k)
  /\ calls[k].pc = "analyses"
  /\ heap' = [heap EXCEPT ![calls[k].ref] = StoreAnalyses(@, calls[k].analyses)]
  /\ calls' = [calls EXCEPT ![k].pc = "member", ![k].i = 1]
  /\ UNCHANGED <<impl, councils, activeCouncil, last, ghost>>

\* one turn of the loop of getMemberAnalyses, up to the next await
PluginRateMember(k, ms) ==
  /\ HandlerTurn(k)
  /\ calls[k].pc = "member"
  /\ heap' = [heap EXCEPT ![calls[k].ref] = MemberRated(@, calls[k].i, ms[calls[k].i])]
  /\ calls' = IF calls[k].i < Len(heap[calls[k].ref].members)
                THEN [calls EXCEPT ![k].i = @ + 1]
                ELSE [calls EXCEPT ![k].pc = "done"]
  /\ UNCHANGED <<impl, councils, activeCouncil, last, ghost>>

\* startAnalysis returns, the two callbacks, return
PluginRateFinish(k) ==
  /\ HandlerTurn(k)
  /\ calls[k].pc = "done"
  /\ calls' = RemoveAt(calls, k)
  /\ last' = Returned("handler", calls[k].text,
                      [kind |-> "rate", callbacks |-> 2, ref |-> calls[k].ref])
  /\ UNCHANGED <<impl, heap, councils, activeCouncil, ghost>>

\* the "rate" branch from its first resumption on, over the shuffles and the
\* draws given
PluginRateSteps(shuffles, batch, member) ==
  \/ \E k \in 1..Len(calls), id \in IdDraws(councils), perm \in shuffles, ds \in batch :
       PluginRateCreate(k, id, perm, ds)
  \/ \E k \in 1..Len(calls) : PluginRateStore(k)
  \/ \E k \in 1..Len(calls), ms \in member : PluginRateMember(k, ms)
  \/ \E k \in 1..Len(calls) : PluginRateFinish(k)

PluginRateOver(shuffles, batch, member) ==
  \/ \E text \in Texts : PluginRateBegin(text)
  \/ PluginRateSteps(shuffles, batch, member)

\* Math.floor(Math.random() * 4) + 6
ConfirmScore(d) == FloorRand(d, 4) + 6

\* a confirm branch that writes the ratings and leaves the status
ConfirmActiveKeepStatus(c, ms) ==
  [c EXCEPT !.ratings = PutRatings("plugin", c.ratings, c.members,
                                   [i \in 1..Len(c.members) |-> ConfirmScore(ms[i])], 1)]

\* handler, "confirm" branch with an activeCouncil: status = 'active' with no
\* look at the status, a rating of 6..9 for each member, one callback,
\* activeCouncil = null
ConfirmActive(c, ms) ==
  [c EXCEPT !.status = "active",
            !.ratings = PutRatings("plugin", c.ratings, c.members,
                                   [i \in 1..Len(c.members) |-> ConfirmScore(ms[i])], 1)]

\* the response of the "confirm" branch, by its parts:
\* avgRating = sum / ratings.length, generateSentiment(avgRating * 10)
ConfirmResponse(c, ref) ==
  LET sum == RatingSum("plugin", c.ratings)
      n == Cardinality(DOMAIN c.ratings)
  IN  [ kind |-> "ratings", callbacks |-> 1, ref |-> ref, crypto |-> c.crypto,
        overall |-> ToFixed1(sum, n), sentiment |-> generateSentiment(10 * sum, n) ]

\* a confirm branch that leaves activeCouncil set
PluginConfirmKeepsActive(text, ms) ==
  /\ impl = "plugin"
  /\ ~(AsksRating(text) /\ PluginCrypto(text) # "")
  /\ AsksConfirm(text)
  /\ activeCouncil # 0
  /\ LET c == ConfirmActive(heap[activeCouncil], ms) IN
       /\ heap' = [heap EXCEPT ![activeCouncil] = c]
       /\ last' = Returned("handler", text, ConfirmResponse(c, activeCouncil))
  /\ UNCHANGED <<impl, councils, activeCouncil, calls, ghost>>

PluginConfirm(text, ms) ==
  /\ impl = "plugin"
  /\ ~(AsksRating(text) /\ PluginCrypto(text) # "")
  /\ AsksConfirm(text)
  /\ activeCouncil # 0
  /\ LET c == ConfirmActive(heap[activeCouncil], ms) IN
       /\ heap' = [heap EXCEPT ![activeCouncil] = c]
       /\ last' = Returned("handler", text, ConfirmResponse(c, activeCouncil))
  /\ activeCouncil' = 0
  /\ UNCHANGED <<impl, councils, calls, ghost>>

\* handler, no branch taken: the default reply
PluginDefault(text) ==
  /\ impl = "plugin"
  /\ ~(AsksRating(text) /\ PluginCrypto(text) # "")
  /\ ~(AsksConfirm(text) /\ activeCouncil # 0)
  /\ last' = Returned("handler", text, [kind |-> "default", callbacks |-> 1])
  /\ UNCHANGED <<impl, heap, councils, activeCouncil, calls, ghost>>

PluginHandler ==
  \/ PluginRateOver(EdgeShuffles, BatchDraws, AnalysisDraws)
  \/ \E text \in Texts, ms \in ConfirmDraws : PluginConfirm(text, ms)
  \/ \E text \in Texts : PluginDefault(text)

----------------------------------------------------------------------------
(* getActiveCouncils and the chat handler: CouncilManager. *)

\* Array.from(this.councils.values()).filter(c => c.status === 'pending')
getActiveCouncils == SelectSeq(MapValues(councils), LAMBDA r : heap[r].status = "pending")

\* handler, "rate" branch: manager.suggestCouncil(crypto), returns a message;
\* cap bounds the number of councils ever created
ManagerRateUpTo(cap, text, id, perm) ==
  /\ impl = "manager"
  /\ AsksRating(text)
  /\ ManagerCrypto(text) # ""
  /\ Len(heap) < cap
  /\ heap' = Append(heap, NewCouncil("manager", id, DrawMembers(perm), ManagerCrypto(text)))
  /\ councils' = MapSet(councils, id, Len(heap) + 1)
  /\ ghost' = Append(ghost, NewGhost)
  /\ last' = Returned("handler", text, [kind |-> "assembled", callbacks |-> 0, ref |-> Len(heap) + 1])
  /\ UNCHANGED <<impl, activeCouncil, calls>>

ManagerRate(text, id, perm) == ManagerRateUpTo(MaxCouncils, text, id, perm)

\* handler, "confirm" branch: activeCouncils[0], confirmCouncil(council.id),
\* collectRatings(council.id), returns the report
ManagerConfirm(text, rs, ax) ==
  /\ impl = "manager"
  /\ ~(AsksRating(text) /\ ManagerCrypto(text) # "")
  /\ AsksConfirm(text)
  /\ Len(getActiveCouncils) > 0
  /\ LET id == heap[getActiveCouncils[1]].id
         r == MapGet(councils, id)
         confirmed == IF ConfirmGuard(r) THEN [heap[r] EXCEPT !.status = "active"] ELSE heap[r]
         passes == confirmed.status = "active"
         c == IF passes THEN CollectInto("manager", confirmed, rs, ax) ELSE confirmed
     IN  /\ heap' = [heap EXCEPT ![r] = c]
         /\ ghost' = [ghost EXCEPT
              ![r].confirmedTrue = IF ConfirmGuard(r) THEN BumpOnce(@) ELSE @,
              ![r].collected = IF passes THEN BumpOnce(@) ELSE @,
              ![r].completions = IF passes THEN BumpOnce(@) ELSE @]
         /\ last' = Returned("handler", text,
              IF passes
                THEN [kind |-> "report", callbacks |-> 0, ref |-> r,
                      text |-> CollectReport("manager", c)]
                ELSE [kind |-> "Council not found or not active"])
  /\ UNCHANGED <<impl, councils, activeCouncil, calls>>

\* handler, "confirm" branch with no pending council
ManagerNoneToConfirm(text) ==
  /\ impl = "manager"
  /\ ~(AsksRating(text) /\ ManagerCrypto(text) # "")
  /\ AsksConfirm(text)
  /\ Len(getActiveCouncils) = 0
  /\ last' = Returned("handler", text, [kind |-> "No active councils to confirm"])
  /\ UNCHANGED <<impl, heap, councils, activeCouncil, calls, ghost>>

\* handler, no branch taken: the default reply
ManagerDefault(text) ==
  /\ impl = "manager"
  /\ ~(AsksRating(text) /\ ManagerCrypto(text) # "")
  /\ ~AsksConfirm(text)
  /\ last' = Returned("handler", text, [kind |-> "default", callbacks |-> 0])
  /\ UNCHANGED <<impl, heap, councils, activeCouncil, calls, ghost>>

ManagerHandler ==
  \/ \E text \in Texts, id \in IdDraws(councils), perm \in EdgeShuffles :
       ManagerRate(text, id, perm)
  \/ \E text \in Texts, rs \in MemberDraws, ax \in AxisDraws : ManagerConfirm(text, rs, ax)
  \/ \E text \in Texts : ManagerNoneToConfirm(text)
  \/ \E text \in Texts : ManagerDefault(text)

----------------------------------------------------------------------------
(* The lifecycle specification: every operation of either class, each call  *)
(* run to its return before the next.                                        *)

Next ==
  \/ SuggestCouncil
  \/ ConfirmCouncil
  \/ CollectRatings
  \/ ProgressStage
  \/ PluginHandler
  \/ ManagerHandler

Spec == Init /\ [][Next]_vars

----------------------------------------------------------------------------
(* The specifications of single parts. *)

\* suggestCouncil and the handlers' "rate" branch on an empty store, over
\* every outcome of the shuffle.
FactoryNext ==
  \/ /\ councils = << >>
     /\ calls = << >>
     /\ \E id \in IdDraws(councils), perm \in AllShuffles, crypto \in Cryptos :
          SuggestCouncilWith(id, perm, crypto)
  \/ /\ councils = << >>
     /\ calls = << >>
     /\ \E text \in Texts : PluginRateBegin(text)
  \/ PluginRateSteps(AllShuffles, BatchDraws, AnalysisDraws)
  \/ /\ councils = << >>
     /\ \E text \in Texts, id \in IdDraws(councils), perm \in AllShuffles :
          ManagerRate(text, id, perm)

SpecFactory == Init /\ [][FactoryNext]_vars

\* One council, confirmed, and collectRatings over every combination of three
\* member scores in 1..10.
RiskNext ==
  \/ councils = << >> /\ SuggestCouncil
  \/ ConfirmCouncil
  \/ \E id \in IdArgs(councils) :
       /\ CollectGuard(MapGet(councils, id))
       /\ \E rs \in [1..3 -> Deciles], ax \in AxisDraws : CollectRatingsWith(id, rs, ax)
  \/ \E id \in IdArgs(councils) :
       /\ ~CollectGuard(MapGet(councils, id))
       /\ \E rs \in MemberDraws, ax \in AxisDraws : CollectRatingsWith(id, rs, ax)

SpecRisk == Init /\ [][RiskNext]_vars

\* suggestCouncil, confirmCouncil and progressStage, and no other operation.
StagesNext ==
  \/ SuggestCouncil
  \/ ConfirmCouncil
  \/ ProgressStage

SpecStages == Init /\ [][StagesNext]_vars

\* progressStage with its await, on one council: calls may overlap, and
\* collectRatings may run while a call is suspended.
AsyncNext ==
  \/ /\ councils = << >>
     /\ SuggestCouncil
  \/ ConfirmCouncil
  \/ CollectRatings
  \/ ProgressStageOver(EdgeDraws, MaxInFlight)

SpecAsync == Init /\ [][AsyncNext]_vars

\* one call of analyzeStage(council, stage), d its draw: it reads stage.name
\* and writes nothing
AnalyzeStageCall(name, d) ==
  /\ impl = "plugin"
  /\ IF analyzeStageThrows(name)
       THEN last' = Returned("analyzeStage", name, [kind |-> "TypeError"])
       ELSE LET a == analyzeStage(name, d) IN
            last' = Returned("analyzeStage", name,
                      [kind |-> "analysis", analysis |-> a.analysis,
                       score |-> a.score, details |-> a.details])
  /\ UNCHANGED <<impl, heap, councils, activeCouncil, calls, ghost>>

\* analyzeStage over every draw on a new plugin, and one council whose stages
\* are analysed in batch with the least and the greatest draw of the grid, and
\* one by one with the greatest draw of the grid and the greatest of all.
AnalyzerNext ==
  \/ /\ councils = << >>
     /\ \E name \in StageArgs, d \in Rand : AnalyzeStageCall(name, d)
  \/ /\ councils = << >>
     /\ SuggestCouncil
  \/ /\ councils = << >>
     /\ calls = << >>
     /\ \E text \in Texts : PluginRateBegin(text)
  \/ PluginRateSteps(EdgeShuffles, BatchEdges, AnalysisDraws)
  \/ ConfirmCouncil
  \/ ProgressStageOver({RandScale - 1, 0 - 1}, 1)

SpecAnalyzer == Init /\ [][AnalyzerNext]_vars

\* one council of the rate branch, confirmed and analysed one by one while
\* the handler that created it may still be suspended
BatchNext ==
  \/ /\ councils = << >>
     /\ calls = << >>
     /\ \E text \in Texts : PluginRateBegin(text)
  \/ PluginRateSteps(EdgeShuffles, BatchDraws, AnalysisDraws)
  \/ ConfirmCouncil
  \/ ProgressStage

SpecBatch == Init /\ [][BatchNext]_vars

\* getCouncil(id) returns the stored Council object itself: its holder
\* writes the name of stage k, which has not been analysed one by one yet
RenameStage(id, k, name) ==
  LET r == MapGet(councils, id) IN
  /\ impl = "plugin"
  /\ r # 0
  /\ k > heap[r].currentStage
  /\ heap[r].stages[k].name # name
  /\ heap' = [heap EXCEPT ![r].stages[k].name = name]
  /\ last' = Returned("getCouncil", id, [kind |-> "council", ref |-> r])
  /\ UNCHANGED <<impl, councils, activeCouncil, calls, ghost>>

\* analyzeStage on declared and undeclared names, and progressStage on one
\* council whose stages a caller renamed.
UnknownNext ==
  \/ /\ councils = << >>
     /\ \E name \in StageArgs, d \in EdgeDraws : AnalyzeStageCall(name, d)
  \/ /\ councils = << >>
     /\ SuggestCouncil
  \/ ConfirmCouncil
  \/ \E id \in MapKeys(councils), k \in 1..NumStages, name \in StageArgs \ DeclaredStages :
       /\ impl = "plugin"
       /\ \A i \in 1..NumStages :
            heap[MapGet(councils, id)].stages[i].name \in DeclaredStages
       /\ RenameStage(id, k, name)
  \/ ProgressStage

SpecUnknown == Init /\ [][UnknownNext]_vars

\* The chat handlers on one council, with confirmCouncil and collectRatings
\* called beside them and between the turns of a "rate" message; the council
\* comes from suggestCouncil or from a "rate" message; no progressStage.
ChatNext ==
  \/ /\ heap = << >>
     /\ calls = << >>
     /\ SuggestCouncil
  \/ ConfirmCouncil
  \/ CollectRatings
  \/ /\ heap = << >>
     /\ calls = << >>
     /\ \E text \in Texts : PluginRateBegin(text)
  \/ PluginRateSteps(EdgeShuffles, BatchDraws, AnalysisDraws)
  \/ \E text \in Texts, ms \in ConfirmDraws : PluginConfirm(text, ms)
  \/ \E text \in Texts : PluginDefault(text)
  \/ /\ heap = << >>
     /\ \E text \in Texts, id \in IdDraws(councils), perm \in EdgeShuffles :
          ManagerRate(text, id, perm)
  \/ \E text \in Texts, rs \in MemberDraws, ax \in AxisDraws : ManagerConfirm(text, rs, ax)
  \/ \E text \in Texts : ManagerNoneToConfirm(text)
  \/ \E text \in Texts : ManagerDefault(text)

SpecChat == Init /\ [][ChatNext]_vars

\* The methods of both classes called directly, on several councils:
\* progressStage calls may overlap, and any call may run while one is
\* suspended.
LifeNext ==
  \/ SuggestCouncil
  \/ ConfirmCouncil
  \/ \E id \in IdArgs(councils), rs \in ConfirmDraws, ax \in AxisDraws :
       CollectRatingsWith(id, rs, ax)
  \/ ProgressStage

SpecLife == Init /\ [][LifeNext]_vars

\* The chat handlers alone, on several councils: "rate" messages may overlap,
\* and any message may arrive between the turns of one.
TalkNext ==
  \/ PluginHandler
  \/ ManagerHandler

SpecTalk == Init /\ [][TalkNext]_vars

----------------------------------------------------------------------------
(* The claims. *)

Rank(status) ==
  CASE status = "pending" -> 0 [] status = "active" -> 1 [] status = "complete" -> 2

\* ratings, stage scores and analyses, the three axis scores, riskLevel, analysis
SameScores(c, d) ==
  /\ c.ratings = d.ratings
  /\ c.stages = d.stages
  /\ c.technicalScore = d.technicalScore
  /\ c.fundamentalScore = d.fundamentalScore
  /\ c.memePotential = d.memePotential
  /\ c.riskLevel = d.riskLevel
  /\ c.analysis = d.analysis

\* the stage fields but currentStage, and the ratings
SameStagesAndRatings(c, d) == c.ratings = d.ratings /\ c.stages = d.stages

AllCompleted(c) == \A i \in 1..Len(c.stages) : c.stages[i].completed

\* the three member scores of a council whose ratings are all written
MemberScoreSum(c) ==
  ScoreOf(impl, c.ratings[c.members[1]]) + ScoreOf(impl, c.ratings[c.members[2]])
    + ScoreOf(impl, c.ratings[c.members[3]])

\* C1: no step takes the status of a council backward in
\* pending < active < complete.
C1_StatusNeverBackward ==
  [][\A r \in 1..Len(heap) : Rank(heap'[r].status) >= Rank(heap[r].status)]_vars

\* C2: collectRatings(id) on a council that is missing or not active returns
\* 'Council not found or not active' and changes no council, on an active one
\* it returns the report; and it takes effect at most once per council.
C2_CollectOnlyActiveOnce ==
  [][ /\ \A id \in IdArgs(councils), rs \in MemberDraws, ax \in AxisDraws :
           CollectRatingsWith(id, rs, ax) =>
             LET r == MapGet(councils, id) IN
             IF r # 0 /\ heap[r].status = "active"
               THEN last'.ret.kind = "report" /\ heap'[r].status = "complete"
               ELSE /\ last'.ret.kind = "Council not found or not active"
                    /\ heap' = heap
      /\ \A r \in 1..Len(heap') : ghost'[r].collected <= 1 ]_vars

\* C3: confirmCouncil(id) returns true and sets the status to active exactly
\* when the council exists and is pending; otherwise it returns false and no
\* council changes; it returns true at most once per council.
C3_ConfirmOnce ==
  [][ /\ \A id \in IdArgs(councils) :
           ConfirmCouncilId(id) =>
             LET r == MapGet(councils, id)
                 pending == r # 0 /\ heap[r].status = "pending"
             IN  /\ last'.ret.value = pending
                 /\ pending => /\ heap'[r].status = "active"
                               /\ \A q \in 1..Len(heap) : q # r => heap'[q] = heap[q]
                 /\ ~pending => heap' = heap
                 /\ councils' = councils
      /\ \A r \in 1..Len(heap') : ghost'[r].confirmedTrue <= 1 ]_vars

\* a second confirmCouncil on a council confirmed before returned false
C3_Witness ==
  /\ last.op = "confirmCouncil"
  /\ last.ret.value = FALSE
  /\ MapGet(councils, last.arg) # 0
  /\ ghost[MapGet(councils, last.arg)].confirmedTrue = 1
  /\ heap[MapGet(councils, last.arg)].status # "pending"

\* C4: once a council is complete no step changes its ratings, stage scores,
\* axis scores, riskLevel or analysis, and it becomes complete at most once.
C4_CompleteIsFrozen ==
  [][\A r \in 1..Len(heap) :
       /\ heap[r].status = "complete" => SameScores(heap'[r], heap[r])
       /\ ghost'[r].completions <= 1]_vars

\* C5 as stated: after exactly 5 progressStage calls that passed the guard on
\* a created and confirmed council, each returned before the next began and
\* with no other operation on the council, the status is complete and all 5
\* stages are completed.
C5_CompleteAfterFive ==
  \A r \in Refs :
    (ghost[r].nexts = 5 /\ ~ghost[r].overlapped) =>
      heap[r].status = "complete" /\ AllCompleted(heap[r])

\* C5 amended: after 5 such calls all 5 stages are completed and currentStage
\* is 5, and the status is still active; the sixth call makes it complete.
C5_CompleteAfterSix ==
  \A r \in Refs :
    ~ghost[r].overlapped =>
      /\ ghost[r].nexts = 5 =>
           /\ AllCompleted(heap[r])
           /\ heap[r].currentStage = 5
           /\ heap[r].status = "active"
      /\ ghost[r].nexts < 5 => heap[r].status # "complete"
      /\ ghost[r].nexts = 6 => heap[r].status = "complete" /\ AllCompleted(heap[r])

\* the fifth call has returned its stage message
C5_Witness ==
  \E r \in Refs :
    /\ ghost[r].nexts = 5
    /\ ~ghost[r].overlapped
    /\ last.op = "progressStage"
    /\ last.ret.kind = "stage"
    /\ last.ret.number = 5

\* C6: the stage fields and the ratings of a council are written only while
\* its status is active: a step that changes them finds the council active,
\* leaves it active or has confirmed it, and a council is created with none
\* of them written.
C6_WritesOnlyWhileActive ==
  [][ /\ \A r \in 1..Len(heap) :
           ~SameStagesAndRatings(heap'[r], heap[r]) =>
             \/ heap[r].status = "active"
             \/ heap'[r].status = "active"
             \/ ghost'[r].confirmedTrue # ghost[r].confirmedTrue
      /\ \A r \in (Len(heap) + 1)..Len(heap') :
           heap'[r].status = "pending" =>
             SameStagesAndRatings(heap'[r],
               NewCouncil(impl, heap'[r].id, heap'[r].members, heap'[r].crypto)) ]_vars

\* C7: every council has exactly 3 members, of pairwise distinct names, each
\* of the roster.
C7_ThreeDistinctMembers ==
  \A r \in Refs :
    /\ Len(heap[r].members) = 3
    /\ \A i, j \in 1..Len(heap[r].members) :
         i # j => heap[r].members[i] # heap[r].members[j]
    /\ \A i \in 1..Len(heap[r].members) : heap[r].members[i] \in RosterNames

\* a council drawn from a shuffle that moved the roster's last member first
C7_Witness ==
  \E r \in Refs :
    /\ heap[r].members[1] = "ChartMaster"
    /\ heap[r].members[2] = "CryptoSage"
    /\ heap[r].members[3] = "DeFiGuru"

\* C8: registering a council under an id present in the store fails with
\* DuplicateId and the council stored under that id stays.
C8_DuplicateIdRejected ==
  [][\A id \in MapKeys(councils) :
       /\ MapGet(councils', id) = MapGet(councils, id)
       /\ (Len(heap') > Len(heap) /\ heap'[Len(heap')].id = id)
            => last'.ret.kind = "DuplicateId"]_vars

\* C9: after collectRatings, with avgRating the mean of the three member
\* scores: low iff avgRating > 7, medium iff 4 < avgRating <= 7, high
\* otherwise; bullish iff avgRating >= 7, neutral iff 4 <= avgRating < 7,
\* bearish otherwise.
C9_RiskAndSentimentBands ==
  \A r \in Refs :
    heap[r].status = "complete" =>
      LET sum == MemberScoreSum(heap[r])
          risk == heap[r].riskLevel
          mood == heap[r].analysis.template
      IN  /\ \A m \in DOMAIN heap[r].ratings :
               ScoreOf(impl, heap[r].ratings[m]) \in 1..10
          /\ risk = "low" <=> sum > 7 * 3
          /\ risk = "medium" <=> (sum > 4 * 3 /\ sum <= 7 * 3)
          /\ risk = "high" <=> sum <= 4 * 3
          /\ mood = "bullish" <=> sum >= 7 * 3
          /\ mood = "neutral" <=> (sum >= 4 * 3 /\ sum < 7 * 3)
          /\ mood = "bearish" <=> sum < 4 * 3
          /\ heap[r].analysis.crypto = heap[r].crypto

\* avgRating == 7: medium risk with the bullish narrative
C9_Witness ==
  \E r \in Refs :
    /\ heap[r].status = "complete"
    /\ MemberScoreSum(heap[r]) = 7 * 3
    /\ ScoreOf(impl, heap[r].ratings[heap[r].members[1]]) = 4
    /\ heap[r].riskLevel = "medium"
    /\ heap[r].analysis.template = "bullish"

\* C10: the riskLevel of a complete council is the low/medium/high class of
\* the mean of its member ratings.
C10_RiskMatchesRatings ==
  \A r \in Refs :
    (heap[r].status = "complete" /\ DOMAIN heap[r].ratings # {}) =>
      LET sum == RatingSum(impl, heap[r].ratings)
          n == Cardinality(DOMAIN heap[r].ratings)
      IN  heap[r].riskLevel =
            IF sum > 7 * n THEN "low" ELSE IF sum > 4 * n THEN "medium" ELSE "high"

\* the declared range of a stage name, as the claim lists it
DeclaredRange(name) ==
  CASE name = "On-chain Analysis" -> 60..99
    [] name = "Social Sentiment"  -> 50..99
    [] name = "Market Insights"   -> 40..99
    [] name = "Design and Art"    -> 70..99
    [] name = "Value Proposition" -> 55..99

\* C11: every score analyzeStage returns for a declared stage name is an
\* integer of that stage's range, for every draw; every stage score stored in
\* a council is 0 or within its stage's range.
C11_StageScoresInRange ==
  /\ (last.op = "analyzeStage" /\ last.arg \in DeclaredStages) =>
       last.ret.score \in DeclaredRange(last.arg)
  /\ \A r \in Refs : \A i \in 1..Len(heap[r].stages) :
       \/ heap[r].stages[i].score = 0
       \/ heap[r].stages[i].score \in DeclaredRange(heap[r].stages[i].name)

\* C12: analyzeStage on a name outside the five declared names returns score
\* 0, 'Analysis unavailable' and empty details, and does not raise;
\* progressStage on a stage of such a name marks it completed and advances
\* currentStage by one.
C12_UnknownStageDegrades ==
  [][ /\ (last'.op = "analyzeStage" /\ last'.arg \notin DeclaredStages) =>
           /\ last'.ret.kind = "analysis"
           /\ last'.ret.score = 0
           /\ last'.ret.analysis = "Analysis unavailable"
           /\ last'.ret.details = {}
      /\ \A n \in 1..Len(calls) :
           LET r == calls[n].ref
               k == calls[n].stage
           IN
           ( /\ calls[n].op = "progressStage"
             /\ calls' = RemoveAt(calls, n)
             /\ Len(calls') < Len(calls)
             /\ last'.op = "progressStage"
             /\ calls[n].name \notin DeclaredStages ) =>
               /\ last'.ret.kind = "stage"
               /\ heap'[r].currentStage = heap[r].currentStage + 1
               /\ heap'[r].stages[k].completed
               /\ heap'[r].stages[k].score = 0
               /\ heap'[r].stages[k].analysis = "Analysis unavailable" ]_vars

\* the handler call n stores the results of its batch analysis in this step
\* (council.ts:509-514)
StoresBatch(n) ==
  /\ calls[n].op = "handler"
  /\ calls[n].pc = "analyses"
  /\ Len(calls') = Len(calls)
  /\ calls'[n].pc = "member"

\* C13: the batch analysis of the rate branch writes score, analysis and
\* details of all 5 stages and leaves currentStage, the status and every
\* completed flag as they were: 0, pending and false when no progressStage
\* call was taken on the council before; the first progressStage call to
\* return a stage message for the council then returns that of stage 1.
C13_BatchLeavesPointer ==
  [][ /\ \A n \in 1..Len(calls) :
           StoresBatch(n) =>
             LET r == calls[n].ref IN
             /\ heap'[r].currentStage = heap[r].currentStage
             /\ heap'[r].status = heap[r].status
             /\ heap'[r].ratings = heap[r].ratings
             /\ Len(heap'[r].stages) = 5
             /\ \A i \in 1..Len(heap'[r].stages) :
                  /\ heap'[r].stages[i].completed = heap[r].stages[i].completed
                  /\ heap'[r].stages[i].name = StageNames[i]
                  /\ heap'[r].stages[i].score >= 40
                  /\ heap'[r].stages[i].analysis # ""
                  /\ heap'[r].stages[i].details # {}
             /\ (ghost[r].nexts = 0 /\ ghost[r].confirmedTrue = 0) =>
                  /\ heap'[r].currentStage = 0
                  /\ heap'[r].status = "pending"
                  /\ \A i \in 1..Len(heap'[r].stages) : ~heap'[r].stages[i].completed
      /\ \A r \in 1..Len(heap) :
           (ghost[r].nexts = 0 /\ ghost'[r].nexts = 1 /\ last'.ret.kind = "stage") =>
             /\ last'.ret.number = 1
             /\ last'.ret.name = "On-chain Analysis"
             /\ heap'[r].stages[1].completed ]_vars

\* a council analysed in batch whose first stage was then analysed by
\* progressStage: stage 2 still holds its batch score and is not completed
C13_Witness ==
  \E r \in Refs :
    /\ last.op = "progressStage"
    /\ last.ret.kind = "stage"
    /\ heap[r].currentStage = 1
    /\ heap[r].stages[1].completed
    /\ heap[r].stages[1].score = 99
    /\ heap[r].stages[2].score = 50
    /\ ~heap[r].stages[2].completed

\* C14: after suggestCouncil('BTC'), confirmCouncil(id), collectRatings(id)
\* the report holds the symbol 'BTC', the overall rating to one decimal, the
\* narrative of the sentiment band, and exactly 3 per-member score lines, one
\* for each member of the panel.
C14_ReportContents ==
  (last.op = "collectRatings" /\ last.ret.kind = "report") =>
    LET r == MapGet(councils, last.arg)
        sum == MemberScoreSum(heap[r])
        rep == last.ret
    IN  /\ rep.crypto = "BTC"
        /\ 3 * rep.overall - 10 * sum \in (0 - 1)..1
        /\ rep.analysis.crypto = "BTC"
        /\ rep.analysis.template =
             IF sum >= 7 * 3 THEN "bullish" ELSE IF sum >= 4 * 3 THEN "neutral" ELSE "bearish"
        /\ Len(rep.votes) = 3
        /\ \A i \in 1..3 :
             /\ rep.votes[i][1] = heap[r].members[i]
             /\ rep.votes[i][2] = heap[r].ratings[heap[r].members[i]]

\* the status transitions of council r in a step: 1 for its creation and 1
\* for each rank it moves up
Transitions(r) ==
  IF r > Len(heap) THEN 1 + Rank(heap'[r].status)
  ELSE Rank(heap'[r].status) - Rank(heap[r].status)

\* the reports a handler call sent: its callback invocations in CouncilPlugin,
\* the one message it returns in CouncilManager
OutboundReports(ret) == IF impl = "plugin" THEN ret.callbacks ELSE 1

\* a handler invocation for a rate or a confirm trigger returns in this step
TriggerHandled ==
  /\ last' # last
  /\ last'.op = "handler"
  /\ last'.ret.kind \in {"rate", "assembled", "ratings", "report"}

\* the step in which a trigger acts on the status of a council: the creation
\* of the council of a rate trigger, and a confirm trigger
TriggerActs ==
  \/ Len(heap') > Len(heap)
  \/ TriggerHandled /\ last'.ret.kind \in {"ratings", "report"}

\* C15 as stated: each rate or confirm trigger the handler acts on makes
\* exactly one status transition, of one council, and sends exactly one report.
C15_OneTransitionOneReport ==
  [][ /\ TriggerHandled => OutboundReports(last'.ret) = 1
      /\ IF TriggerActs
           THEN \E r \in 1..Len(heap') :
                  /\ Transitions(r) = 1
                  /\ \A q \in 1..Len(heap') : q # r => Transitions(q) = 0
           ELSE \A q \in 1..Len(heap) : Transitions(q) = 0 ]_vars

\* C15 amended: each such trigger creates or changes one council and no
\* other.  rate creates one pending council and writes to that council only;
\* CouncilPlugin sends two callbacks for it, CouncilManager returns one
\* message.  CouncilPlugin's confirm sets the activeCouncil active and sends
\* one callback.  CouncilManager's confirm takes one council from pending to
\* complete, two transitions, and returns one message.
C15_OneCouncilPerTrigger ==
  [][ /\ Len(heap') \in {Len(heap), Len(heap) + 1}
      /\ Len(heap') > Len(heap) =>
           /\ heap'[Len(heap')].status = "pending"
           /\ \A q \in 1..Len(heap) : heap'[q] = heap[q]
      /\ \A n \in 1..Len(calls) :
           (calls[n].op = "handler" /\ calls[n].pc # "token"
              /\ Len(calls') = Len(calls) /\ calls'[n] # calls[n]) =>
             /\ calls'[n].ref = calls[n].ref
             /\ \A q \in 1..Len(heap) :
                  /\ q # calls[n].ref => heap'[q] = heap[q]
                  /\ Transitions(q) = 0
      /\ TriggerHandled =>
           LET kind == last'.ret.kind
               ref == last'.ret.ref
           IN  /\ kind = "rate" =>
                    /\ OutboundReports(last'.ret) = 2
                    /\ heap' = heap
                    /\ \E n \in 1..Len(calls) :
                         calls[n].ref = ref /\ calls' = RemoveAt(calls, n)
               /\ kind = "assembled" =>
                    /\ OutboundReports(last'.ret) = 1
                    /\ ref = Len(heap')
                    /\ Len(heap') = Len(heap) + 1
               /\ kind = "ratings" =>
                    /\ OutboundReports(last'.ret) = 1
                    /\ ref = activeCouncil
                    /\ heap'[ref].status = "active"
                    /\ \A q \in 1..Len(heap) : q # ref => heap'[q] = heap[q]
               /\ kind = "report" =>
                    /\ OutboundReports(last'.ret) = 1
                    /\ Transitions(ref) = 2
                    /\ heap[ref].status = "pending"
                    /\ heap'[ref].status = "complete"
                    /\ \A q \in 1..Len(heap) : q # ref => heap'[q] = heap[q] ]_vars

\* CouncilManager's confirm has completed one council beside a pending one
C15_Witness ==
  /\ impl = "manager"
  /\ last.op = "handler"
  /\ last.ret.kind = "report"
  /\ heap[last.ret.ref].status = "complete"
  /\ ghost[last.ret.ref].confirmedTrue = 1
  /\ \E q \in Refs : heap[q].status = "pending"

\* C16: progressStage on an active council whose currentStage is past the last
\* stage sets the status to complete, writes no stage field and leaves
\* currentStage, and returns a final summary, not a stage message, whose
\* overall score is the mean of the 5 stage scores.
C16_PastLastStageCompletes ==
  [][ \A r \in 1..Len(heap) :
        ( /\ last'.op = "progressStage"
          /\ calls' = calls
          /\ MapGet(councils, last'.arg) = r
          /\ heap[r].status = "active"
          /\ heap[r].currentStage >= Len(heap[r].stages) ) =>
            /\ heap'[r] = [heap[r] EXCEPT !.status = "complete"]
            /\ last'.ret.kind = "final"
            /\ last'.ret.crypto = heap[r].crypto
            /\ 5 * last'.ret.overall =
                 10 * ( heap[r].stages[1].score + heap[r].stages[2].score
                        + heap[r].stages[3].score + heap[r].stages[4].score
                        + heap[r].stages[5].score ) ]_vars

\* the sixth call has returned the summary of stages scored 99, 100, 99, 99, 99
C16_Witness ==
  /\ last.op = "progressStage"
  /\ last.ret.kind = "final"
  /\ last.ret.overall = 992
  /\ \E r \in Refs :
       /\ heap[r].status = "complete"
       /\ heap[r].currentStage = 5
       /\ heap[r].stages[1].score = 99
       /\ heap[r].stages[2].score = 100

\* C17: currentStage is 0 at creation, never decreases, changes only in a
\* progressStage call that returns a stage message, then by exactly 1, and
\* stays within 0..5.
C17_CurrentStageBounded ==
  [][ /\ \A r \in (Len(heap) + 1)..Len(heap') : heap'[r].currentStage = 0
      /\ \A r \in 1..Len(heap) :
           /\ heap'[r].currentStage >= heap[r].currentStage
           /\ heap'[r].currentStage \in 0..5
           /\ heap'[r].currentStage # heap[r].currentStage =>
                /\ heap'[r].currentStage = heap[r].currentStage + 1
                /\ last'.op = "progressStage"
                /\ last'.ret.kind = "stage" ]_vars

\* C18: in every state every key of a council's ratings is the name of one
\* of its 3 members and the CouncilRating stored under it carries that name as
\* memberName; when no call is suspended on the council, its ratings are empty
\* or hold an entry for all 3 members.
C18_RatingsKeyedByMembers ==
  \A r \in Refs :
    LET panel == { heap[r].members[i] : i \in 1..Len(heap[r].members) }
        keys == DOMAIN heap[r].ratings
    IN  /\ Cardinality(panel) = 3
        /\ keys \subseteq panel
        /\ InFlightOn(r) = {} => keys = {} \/ keys = panel
        /\ impl = "plugin" => \A k \in keys : heap[r].ratings[k].memberName = k

\* the rate handler has returned: its council is pending with the three
\* ratings of getMemberAnalyses
C18_Witness ==
  \E r \in Refs :
    /\ calls = << >>
    /\ last.op = "handler"
    /\ last.ret.kind = "rate"
    /\ heap[r].status = "pending"
    /\ Cardinality(DOMAIN heap[r].ratings) = 3
    /\ heap[r].ratings[heap[r].members[1]].score = 60
    /\ heap[r].ratings[heap[r].members[3]].memberName = heap[r].members[3]

\* C19: progressStage(id) on a missing, pending or complete council returns
\* 'No active council found' and changes nothing, and no call is taken up for
\* such a council; a step that writes a stage field or moves currentStage
\* writes the completed flag, score, analysis and details of one stage and
\* adds 1 to currentStage, all in that one step.
C19_RejectsOrCommitsWhole ==
  [][ /\ ( /\ last'.op = "progressStage"
            /\ calls' = calls
            /\ \/ MapGet(councils, last'.arg) = 0
               \/ heap[MapGet(councils, last'.arg)].status # "active" ) =>
              /\ last'.ret.kind = "No active council found"
              /\ heap' = heap
              /\ councils' = councils
      /\ Len(calls') > Len(calls) =>
           heap[calls'[Len(calls')].ref].status = "active"
      /\ \A r \in 1..Len(heap) :
           ( heap'[r].stages # heap[r].stages
             \/ heap'[r].currentStage # heap[r].currentStage ) =>
               /\ heap'[r].currentStage = heap[r].currentStage + 1
               /\ last'.op = "progressStage"
               /\ last'.ret.kind = "stage"
               /\ \E k \in 1..Len(heap[r].stages) :
                    /\ \A i \in 1..Len(heap[r].stages) :
                         i # k => heap'[r].stages[i] = heap[r].stages[i]
                    /\ heap'[r].stages[k].completed
                    /\ heap'[r].stages[k].name = last'.ret.name
                    /\ heap'[r].stages[k].score = last'.ret.score
                    /\ heap'[r].stages[k].analysis = last'.ret.analysis
                    /\ heap'[r].stages[k].details = StageDetails(last'.ret.name) ]_vars

\* a call has committed stage 2 while another call on the council is suspended
C19_Witness ==
  /\ last.op = "progressStage"
  /\ last.ret.kind = "stage"
  /\ last.ret.name = "Social Sentiment"
  /\ \E r \in Refs :
       /\ heap[r].currentStage = 2
       /\ heap[r].stages[2].completed
       /\ heap[r].stages[2].score = 99
       /\ InFlightOn(r) # {}

----------------------------------------------------------------------------
(* The CouncilManager chat handler alone, with room for a council that      *)
(* takes the key of an earlier one.                                          *)

ConfirmInit ==
  /\ Init
  /\ impl = "manager"

ConfirmNext ==
  \/ \E text \in Texts, id \in IdDraws(councils), perm \in EdgeShuffles :
       ManagerRateUpTo(MaxStore, text, id, perm)
  \/ \E text \in Texts, rs \in MemberDraws, ax \in AxisDraws : ManagerConfirm(text, rs, ax)
  \/ \E text \in Texts : ManagerNoneToConfirm(text)
  \/ \E text \in Texts : ManagerDefault(text)

SpecConfirm == ConfirmInit /\ [][ConfirmNext]_vars

\* the stored councils that are pending; a reference is the council's rank in
\* the order of creation, and a council is put in the store when created
PendingStored == { r \in Refs : heap[r].status = "pending" /\ MapGet(councils, heap[r].id) = r }

\* a 'confirm' message reached the confirm branch of the CouncilManager handler
ManagerConfirmHandled ==
  /\ impl = "manager"
  /\ last'.op = "handler"
  /\ AsksConfirm(last'.arg)
  /\ ~(AsksRating(last'.arg) /\ ManagerCrypto(last'.arg) # "")

\* C20: a 'confirm' message to the CouncilManager handler takes the pending
\* council that was inserted earliest from pending through active to complete
\* and leaves every other council as it was; with no pending council it
\* changes nothing and answers 'No active councils to confirm'.
C20_ConfirmsEarliestPending ==
  [][ ManagerConfirmHandled =>
          IF PendingStored = {}
            THEN /\ heap' = heap
                 /\ councils' = councils
                 /\ last'.ret.kind = "No active councils to confirm"
            ELSE LET first == CHOOSE r \in PendingStored : \A q \in PendingStored : r <= q
                 IN  /\ heap'[first].status = "complete"
                     /\ Transitions(first) = 2
                     /\ councils' = councils
                     /\ \A q \in Refs : q # first => heap'[q] = heap[q] ]_vars

\* C21: with progressStage calls on one council in flight at once,
\* currentStage equals the number of completed stages and the completed stages
\* are exactly those with index below currentStage.
C21_PointerCountsCompleted ==
  \A r \in Refs :
    /\ Cardinality({ i \in 1..Len(heap[r].stages) : heap[r].stages[i].completed })
         = heap[r].currentStage
    /\ \A i \in 1..Len(heap[r].stages) :
         heap[r].stages[i].completed <=> i - 1 < heap[r].currentStage

\* C22: a progressStage call that resumes after collectRatings completed its
\* council writes no stage field and does not increment currentStage.
C22_ResumeSparesCompleted ==
  [][ \A k \in 1..Len(calls) :
        ( /\ calls' = RemoveAt(calls, k)
          /\ last'.op = "progressStage"
          /\ heap[calls[k].ref].status = "complete"
          /\ ghost[calls[k].ref].collected > 0 ) =>
            /\ heap'[calls[k].ref].stages = heap[calls[k].ref].stages
            /\ heap'[calls[k].ref].currentStage = heap[calls[k].ref].currentStage ]_vars

\* a 'confirm' message reached the CouncilPlugin handler and was not taken by
\* the rate branch; the handler returns with no await
PluginConfirmHandled ==
  /\ impl = "plugin"
  /\ calls' = calls
  /\ last'.op = "handler"
  /\ AsksConfirm(last'.arg)
  /\ ~(AsksRating(last'.arg) /\ PluginCrypto(last'.arg) # "")

\* C23: in the CouncilPlugin handler, activeCouncil is set only by a 'rate'
\* message, when it creates its council and to that council; a 'confirm'
\* message changes the council a 'rate' message created last and no other,
\* and clears activeCouncil; a 'confirm' message with no council created
\* since the last one changes no council and gets the default reply.
C23_ConfirmTakesLatestRated ==
  [][ /\ activeCouncil' # activeCouncil =>
           /\ impl = "plugin"
           /\ \/ /\ Len(heap') = Len(heap) + 1
                 /\ activeCouncil' = Len(heap')
                 /\ \E n \in 1..Len(calls) :
                      /\ calls[n].op = "handler"
                      /\ AsksRating(calls[n].text)
                      /\ calls[n].pc = "token"
                      /\ Len(calls') = Len(calls)
                      /\ calls'[n].ref = Len(heap')
                      /\ \A j \in 1..(n - 1) : calls[j].pc # "token"
              \/ /\ calls' = calls
                 /\ last'.op = "handler"
                 /\ AsksConfirm(last'.arg)
                 /\ activeCouncil' = 0
      /\ PluginConfirmHandled =>
           IF activeCouncil # 0
             THEN /\ activeCouncil' = 0
                  /\ last'.ret.kind = "ratings"
                  /\ last'.ret.ref = activeCouncil
                  /\ activeCouncil = Len(heap)
                  /\ councils' = councils
                  /\ Len(heap') = Len(heap)
                  /\ \A r \in Refs : r # activeCouncil => heap'[r] = heap[r]
             ELSE /\ heap' = heap
                  /\ councils' = councils
                  /\ activeCouncil' = 0
                  /\ last'.ret.kind = "default" ]_vars

\* a second 'confirm' got the default reply: the council of the last 'rate'
\* was made active by the first one and has its marks of 6..9, and the
\* council of an earlier 'rate' is as that message left it
C23_Witness ==
  /\ impl = "plugin"
  /\ last.op = "handler"
  /\ AsksConfirm(last.arg)
  /\ last.ret.kind = "default"
  /\ activeCouncil = 0
  /\ Len(heap) = 2
  /\ heap[2].status = "active"
  /\ ghost[2].confirmedTrue = 0
  /\ \A m \in DOMAIN heap[2].ratings : heap[2].ratings[m].score \in 6..9
  /\ heap[1].status = "pending"
  /\ \A m \in DOMAIN heap[1].ratings : heap[1].ratings[m].score \in 60..100

\* C24: a council on which a chat 'confirm' message acted is complete when the
\* handler invocation ends, its analysis and riskLevel written by rating
\* collection, in CouncilPlugin and in CouncilManager.
C24_ChatConfirmCompletes ==
  [][ ( /\ impl \in {"plugin", "manager"}
        /\ calls' = calls
        /\ last'.op = "handler"
        /\ AsksConfirm(last'.arg)
        /\ last'.ret.kind \in {"ratings", "report"} ) =>
          LET r == last'.ret.ref IN
          /\ heap'[r].status = "complete"
          /\ ghost'[r].collected = BumpOnce(ghost[r].collected)
          /\ heap'[r].analysis # NewCouncil(impl, heap[r].id, heap[r].members, heap[r].crypto).analysis
          /\ heap'[r].riskLevel \in {"low", "medium", "high"} ]_vars

====
